---- MODULE Spec2Model ----
(***************************************************************************)
(* GolfBuddy: the upload request of app.py (upload_video), the frame       *)
(* pipeline it runs (process_video_with_pose) and the transcode step       *)
(* (convert_to_browser_compatible), as one state machine.                  *)
(*                                                                         *)
(* Text (form fields, ffprobe's stdout) is a sequence of one-character     *)
(* strings, so that strip() and int() are computed and not assumed.        *)
(* A Python optional value is <<>> (None) or <<v>>.  A file on disk is     *)
(* <<>> (does not exist) or <<content>>.                                   *)
(* os.rename has its POSIX meaning: an existing destination is replaced.   *)
(*                                                                         *)
(* The background thread cleanup_old_files shares only the two folders     *)
(* with a request.  Spec is one request with the thread asleep; SweepSpec  *)
(* is the thread running against the folders while request handlers        *)
(* create and remove files in them.                                        *)
(***************************************************************************)
EXTENDS Integers, Sequences, FiniteSets, TLC

VARIABLES
    pc,               \* position of the request handler
    manual_rotation,  \* upload_video: manual_rotation, <<>> or <<n>>
    inputSaved,       \* file.save(input_path) has run
    probe,            \* <<>> or <<the outcome of the one ffprobe call>>
    probeCalls,       \* number of calls of get_video_rotation
    rotation,         \* process_video_with_pose: rotation
    pose,             \* "none", "open", "closed"
    cap,              \* "none", "failed", "opened", "released"
    out,              \* the VideoWriter bound to `out`
    sinkOpens,        \* every cv2.VideoWriter(...) constructed, in order
    source,           \* what the opened source reports and delivers
    width, height, fps,
    framesRead,       \* frames cap.read() has delivered
    frame,            \* <<>> or <<the frame being processed>>
    frame_rgb,        \* <<>> or <<the detector's input>>
    results,          \* "none", "landmarks", "no_landmarks"
    frame_count,
    writes,           \* every out.write(frame) call, in order
    runStatus,        \* "idle", "running", "Closed", "Errored"
    tempFile,         \* file at temp_output_path
    outputFile,       \* file at output_path
    transcode,        \* <<>> or <<the outcome of the ffmpeg call>>
    success,          \* <<>> or <<return value of the transcode step>>
    exc,              \* message of the exception in flight, <<>> if none
    response,         \* [status, body] once the request has been answered
    steps,            \* <<frame, step>> for every step taken on a frame
    now,              \* time.time(), in seconds
    disk,             \* the files of UPLOAD_FOLDER and PROCESSED_FOLDER
    spc,              \* position of the cleanup thread
    current_time,     \* cleanup_old_files: current_time of the pass
    folderIx,         \* index of the folder the pass is in
    listing,          \* names os.listdir returned and not yet visited
    entry,            \* filename of the current iteration
    swept,            \* files the thread has removed in the current pass
    lastPass,         \* "none", "ok" or "failed": how the last pass ended
    savedNames        \* names request handlers have saved since Init

vars == <<pc, manual_rotation, inputSaved, probe, probeCalls, rotation, pose,
          cap, out, sinkOpens, source, width, height, fps, framesRead, frame,
          frame_rgb, results, frame_count, writes, runStatus, tempFile,
          outputFile, transcode, success, exc, response, steps,
          now, disk, spc, current_time, folderIx, listing, entry, swept,
          lastPass, savedNames>>

requestVars ==
    <<pc, manual_rotation, inputSaved, probe, probeCalls, rotation, pose,
      cap, out, sinkOpens, source, width, height, fps, framesRead, frame,
      frame_rgb, results, frame_count, writes, runStatus, tempFile,
      outputFile, transcode, success, exc, response, steps>>

sweepVars ==
    <<now, disk, spc, current_time, folderIx, listing, entry, swept,
      lastPass, savedNames>>

----------------------------------------------------------------------------
\* Bounds

\* the longest source, in frames
MaxFrames == 2

----------------------------------------------------------------------------
\* Python values

None == <<>>
Some(v) == <<v>>
Absent == <<>>
File(content) == <<content>>
Exists(f) == f # Absent

Whitespace == {" ", "\n", "\t"}
DigitChars == {"0", "1", "2", "3", "4", "5", "6", "7", "8", "9"}

DigitVal(c) ==
    CASE c = "0" -> 0 [] c = "1" -> 1 [] c = "2" -> 2 [] c = "3" -> 3
      [] c = "4" -> 4 [] c = "5" -> 5 [] c = "6" -> 6 [] c = "7" -> 7
      [] c = "8" -> 8 [] c = "9" -> 9

RECURSIVE LStrip(_)
LStrip(s) ==
    IF s # <<>> /\ Head(s) \in Whitespace THEN LStrip(Tail(s)) ELSE s

RECURSIVE RStrip(_)
RStrip(s) ==
    IF s # <<>> /\ s[Len(s)] \in Whitespace
    THEN RStrip(SubSeq(s, 1, Len(s) - 1))
    ELSE s

\* str.strip()
Strip(s) == RStrip(LStrip(s))

RECURSIVE DigitsValue(_, _)
DigitsValue(s, acc) ==
    IF s = <<>> THEN acc ELSE DigitsValue(Tail(s), 10 * acc + DigitVal(Head(s)))

AllDigits(s) == s # <<>> /\ \A i \in 1..Len(s) : s[i] \in DigitChars

\* int(text): Some(n), or None for ValueError
PyInt(text) ==
    LET t == Strip(text)
        signed == t # <<>> /\ Head(t) \in {"-", "+"}
        body == IF signed THEN Tail(t) ELSE t
    IN  IF ~AllDigits(body) THEN None
        ELSE IF signed /\ Head(t) = "-" THEN Some(0 - DigitsValue(body, 0))
        ELSE Some(DigitsValue(body, 0))

\* int(x) of a number given in tenths: truncation toward zero
PyIntTenths(x) == IF x >= 0 THEN x \div 10 ELSE 0 - ((0 - x) \div 10)

----------------------------------------------------------------------------
\* Inputs

\* request.form.get('rotation')
FormValues ==
    { [present |-> FALSE, text |-> <<>>],
      [present |-> TRUE, text |-> <<>>],
      [present |-> TRUE, text |-> <<"0">>],
      [present |-> TRUE, text |-> <<"4", "5">>],
      [present |-> TRUE, text |-> <<"9", "0">>],
      [present |-> TRUE, text |-> <<"1", "8", "0">>],
      [present |-> TRUE, text |-> <<"2", "7", "0">>],
      [present |-> TRUE, text |-> <<"3", "6", "0">>],
      [present |-> TRUE, text |-> <<"-", "9", "0">>],
      [present |-> TRUE, text |-> <<"a", "b", "c">>] }

\* request.files
Uploads == {"no_video", "empty_filename", "ok"}

\* what subprocess.run(ffprobe ...) does: raises, or returns with a stdout
ProbeOutcomes ==
    { [kind |-> "FileNotFoundError", stdout |-> <<>>],
      [kind |-> "OSError", stdout |-> <<>>],
      [kind |-> "returned", stdout |-> <<>>],
      [kind |-> "returned", stdout |-> <<"\n">>],
      [kind |-> "returned", stdout |-> <<"N", "/", "A", "\n">>],
      [kind |-> "returned", stdout |-> <<"0", "\n">>],
      [kind |-> "returned", stdout |-> <<"9", "0", "\n">>],
      [kind |-> "returned", stdout |-> <<"1", "8", "0", "\n">>],
      [kind |-> "returned", stdout |-> <<"2", "7", "0", "\n">>],
      [kind |-> "returned", stdout |-> <<"-", "9", "0", "\n">>] }

\* CAP_PROP_FRAME_WIDTH, CAP_PROP_FRAME_HEIGHT of the source
SourceDims == { <<1920, 1080>>, <<640, 480>> }

\* CAP_PROP_FPS of the source, in tenths of a frame per second
SourceFpsTenths == { -10, 0, 5, 299 }

\* pose.process(frame_rgb)
DetectorOutcomes == {"landmarks", "no_landmarks", "raise"}

\* subprocess.run(ffmpeg ...)
TranscodeOutcomes ==
    {"exit_zero", "exit_nonzero", "exit_nonzero_partial",
     "FileNotFoundError", "Exception"}

----------------------------------------------------------------------------
\* Messages and paths

INPUT_PATH == "uploads/<uuid>_input<ext>"
TEMP_OUTPUT_PATH == "processed/<uuid>_temp.mp4"

NoWriter == [codec |-> "none", opened |-> FALSE, released |-> FALSE,
             w |-> 0, h |-> 0, fps |-> 0]

NoSource == [w |-> 0, h |-> 0, fpsTenths |-> 0, frames |-> 0]

TypeOK ==
    /\ pc \in {"request", "start", "open_source", "open_sink", "open_fallback",
               "read", "rotate", "convert", "detect", "draw", "write",
               "release", "transcode", "finalize", "except", "responded"}
    /\ probeCalls \in Nat
    /\ pose \in {"none", "open", "closed"}
    /\ cap \in {"none", "failed", "opened", "released"}
    /\ frame_count \in 0..MaxFrames
    /\ framesRead \in 0..MaxFrames
    /\ runStatus \in {"idle", "running", "Closed", "Errored"}

RequestInit ==
    /\ pc = "request"
    /\ steps = <<>>
    /\ manual_rotation = None
    /\ inputSaved = FALSE
    /\ probe = None
    /\ probeCalls = 0
    /\ rotation = 0
    /\ pose = "none"
    /\ cap = "none"
    /\ out = NoWriter
    /\ sinkOpens = <<>>
    /\ source = NoSource
    /\ width = 0
    /\ height = 0
    /\ fps = 0
    /\ framesRead = 0
    /\ frame = None
    /\ frame_rgb = None
    /\ results = "none"
    /\ frame_count = 0
    /\ writes = <<>>
    /\ runStatus = "idle"
    /\ tempFile = Absent
    /\ outputFile = Absent
    /\ transcode = None
    /\ success = None
    /\ exc = <<>>
    /\ response = None

----------------------------------------------------------------------------
\* Pure functions of app.py

\* get_video_rotation reporting a quarter turn when the probe fails
get_video_rotation_default90(p) ==
    IF p.kind # "returned" THEN 90
    ELSE LET rot == Strip(p.stdout)
         IN  IF rot = <<>> THEN 90
             ELSE IF PyInt(rot) = None THEN 90
             ELSE PyInt(rot)[1]

\* get_video_rotation: the bare except turns every exception, the
\* ValueError of int() included, into 0
get_video_rotation(p) ==
    IF p.kind # "returned" THEN 0
    ELSE LET rot == Strip(p.stdout)
         IN  IF rot = <<>> THEN 0
             ELSE IF PyInt(rot) = None THEN 0
             ELSE PyInt(rot)[1]

\* cv2.rotate / rotate_frame: a quarter turn swaps the frame's sides
rotate_frame(f, rot) ==
    IF rot = 90 THEN [f EXCEPT !.w = f.h, !.h = f.w, !.turn = (f.turn + 1) % 4]
    ELSE IF rot = 180 THEN [f EXCEPT !.turn = (f.turn + 2) % 4]
    ELSE IF rot = 270 THEN [f EXCEPT !.w = f.h, !.h = f.w, !.turn = (f.turn + 3) % 4]
    ELSE f

\* the geometry swap forgetting the counter-clockwise quarter turn
SinkGeometryOnly90(w, h, rot) ==
    IF rot = 90 THEN <<h, w>> ELSE <<w, h>>

\* lines 139-140: width, height = height, width when rotation in [90, 270]
SinkGeometry(w, h, rot) ==
    IF rot \in {90, 270} THEN <<h, w>> ELSE <<w, h>>

\* the default taken only for a negative frame rate
SinkFpsKeepsZero(fpsTenths) ==
    LET f == PyIntTenths(fpsTenths) IN IF f < 0 THEN 30 ELSE f

\* lines 132-136
SinkFps(fpsTenths) ==
    LET f == PyIntTenths(fpsTenths) IN IF f <= 0 THEN 30 ELSE f

\* cv2.cvtColor(frame, cv2.COLOR_BGR2RGB): a new buffer, the frame untouched
cvtColor(f) == [f EXCEPT !.order = "RGB"]

\* mp_drawing.draw_landmarks(frame, ...): draws in place
draw_landmarks(f) == [f EXCEPT !.marks = TRUE]

\* GolfSwingProcessor.visualize_frame: the frame itself when there are no
\* landmarks, otherwise a copy with the landmarks drawn
visualize_frame(f, pose_landmarks) ==
    IF pose_landmarks = None THEN f ELSE draw_landmarks(f)

\* a transcode step that lets a missing ffmpeg binary propagate
convert_propagates_missing_binary(outcome) ==
    IF outcome = "exit_zero" THEN [raised |-> FALSE, ret |-> TRUE]
    ELSE IF outcome = "FileNotFoundError" THEN [raised |-> TRUE, ret |-> FALSE]
    ELSE [raised |-> FALSE, ret |-> FALSE]

\* convert_to_browser_compatible: what the call does for each outcome of the
\* ffmpeg subprocess
convert_to_browser_compatible(outcome) ==
    IF outcome = "exit_zero" THEN [raised |-> FALSE, ret |-> TRUE]
    ELSE IF outcome \in {"exit_nonzero", "exit_nonzero_partial"}
         THEN [raised |-> FALSE, ret |-> FALSE]
    ELSE IF outcome = "FileNotFoundError" THEN [raised |-> FALSE, ret |-> FALSE]
    ELSE [raised |-> FALSE, ret |-> FALSE]

\* a copy in place of the rename: the intermediate stays
OsCopy(src, dst) == [src |-> src, dst |-> src]

\* os.rename(src, dst) with src existing: dst is replaced, src is gone
OsRename(src, dst) == [src |-> Absent, dst |-> src]

\* the exception of line 127
SourceOpenMessage == <<"Failed to open video file: ", INPUT_PATH>>
DetectorMessage == <<"pose.process failed">>

----------------------------------------------------------------------------
\* upload_video, lines 199-228: validation, the rotation field, file.save
Receive ==
    /\ pc = "request"
    /\ UNCHANGED sweepVars
    /\ UNCHANGED steps
    /\ \E upload \in Uploads, form \in FormValues :
         IF upload = "no_video"
         THEN /\ response' = Some([status |-> 400, kind |-> "error",
                                   body |-> <<"No video file provided">>])
              /\ pc' = "responded"
              /\ UNCHANGED <<manual_rotation, inputSaved>>
         ELSE IF upload = "empty_filename"
         THEN /\ response' = Some([status |-> 400, kind |-> "error",
                                   body |-> <<"No file selected">>])
              /\ pc' = "responded"
              /\ UNCHANGED <<manual_rotation, inputSaved>>
         ELSE IF form.present /\ form.text # <<>>
         THEN IF PyInt(form.text) = None
              THEN \* ValueError of line 210, outside the try block
                   /\ response' = Some([status |-> 500, kind |-> "unhandled",
                                        body |-> <<>>])
                   /\ pc' = "responded"
                   /\ UNCHANGED <<manual_rotation, inputSaved>>
              ELSE /\ manual_rotation' = Some(PyInt(form.text)[1])
                   /\ inputSaved' = TRUE
                   /\ pc' = "start"
                   /\ UNCHANGED response
         ELSE /\ manual_rotation' = None
              /\ inputSaved' = TRUE
              /\ pc' = "start"
              /\ UNCHANGED response
    /\ UNCHANGED <<probe, probeCalls, rotation, pose, cap, out, sinkOpens,
                   source, width, height, fps, framesRead, frame, frame_rgb,
                   results, frame_count, writes, runStatus, tempFile,
                   outputFile, transcode, success, exc>>

\* process_video_with_pose, lines 109-122: the detector, then the rotation
StartRun ==
    /\ pc = "start"
    /\ UNCHANGED sweepVars
    /\ UNCHANGED steps
    /\ pose' = "open"
    /\ runStatus' = "running"
    /\ IF manual_rotation # None
       THEN /\ rotation' = manual_rotation[1]
            /\ UNCHANGED <<probe, probeCalls>>
       ELSE \E p \in ProbeOutcomes :
              /\ probe' = Some(p)
              /\ probeCalls' = probeCalls + 1
              /\ rotation' = get_video_rotation(p)
    /\ pc' = "open_source"
    /\ UNCHANGED <<manual_rotation, inputSaved, cap, out, sinkOpens, source,
                   width, height, fps, framesRead, frame, frame_rgb, results,
                   frame_count, writes, tempFile, outputFile, transcode,
                   success, exc, response>>

\* lines 124-143: the source, its properties, the swap
OpenSource ==
    /\ pc = "open_source"
    /\ UNCHANGED sweepVars
    /\ UNCHANGED steps
    /\ \/ /\ cap' = "failed"
          /\ exc' = SourceOpenMessage
          /\ runStatus' = "Errored"
          /\ pc' = "except"
          /\ UNCHANGED <<source, width, height, fps>>
       \/ \E d \in SourceDims, f \in SourceFpsTenths, n \in 0..MaxFrames :
            /\ cap' = "opened"
            /\ source' = [w |-> d[1], h |-> d[2], fpsTenths |-> f, frames |-> n]
            /\ width' = SinkGeometry(d[1], d[2], rotation)[1]
            /\ height' = SinkGeometry(d[1], d[2], rotation)[2]
            /\ fps' = SinkFps(f)
            /\ pc' = "open_sink"
            /\ UNCHANGED <<exc, runStatus>>
    /\ UNCHANGED <<manual_rotation, inputSaved, probe, probeCalls, rotation,
                   pose, out, sinkOpens, framesRead, frame, frame_rgb, results,
                   frame_count, writes, tempFile, outputFile, transcode,
                   success, response>>

\* cv2.VideoWriter(output_path, fourcc, fps, (width, height)): a writer that
\* opened has created its file; one that did not may or may not have
Writer(codec, ok) ==
    [codec |-> codec, opened |-> ok, released |-> FALSE,
     w |-> width, h |-> height, fps |-> fps]

EmptyRaw(codec) == File([kind |-> "raw", codec |-> codec, frames |-> <<>>])

\* lines 146-147: the primary codec
OpenSink ==
    /\ pc = "open_sink"
    /\ UNCHANGED sweepVars
    /\ UNCHANGED steps
    /\ \E ok \in BOOLEAN, made \in BOOLEAN :
         /\ ok => made
         /\ out' = Writer("avc1", ok)
         /\ sinkOpens' = Append(sinkOpens, [codec |-> "avc1", opened |-> ok,
                                            framesRead |-> framesRead])
         /\ tempFile' = IF made THEN EmptyRaw("avc1") ELSE tempFile
         /\ pc' = IF ok THEN "read" ELSE "open_fallback"
    /\ UNCHANGED <<manual_rotation, inputSaved, probe, probeCalls, rotation,
                   pose, cap, source, width, height, fps, framesRead, frame,
                   frame_rgb, results, frame_count, writes, runStatus,
                   outputFile, transcode, success, exc, response>>

\* lines 149-156: the fallback codec, tried when the primary did not open
OpenFallback ==
    /\ pc = "open_fallback"
    /\ UNCHANGED sweepVars
    /\ UNCHANGED steps
    /\ \E ok \in BOOLEAN, made \in BOOLEAN :
         /\ ok => made
         /\ out' = Writer("mp4v", ok)
         /\ sinkOpens' = Append(sinkOpens, [codec |-> "mp4v", opened |-> ok,
                                            framesRead |-> framesRead])
         /\ tempFile' = IF made THEN EmptyRaw("mp4v") ELSE tempFile
         /\ pc' = "read"
    /\ UNCHANGED <<manual_rotation, inputSaved, probe, probeCalls, rotation,
                   pose, cap, source, width, height, fps, framesRead, frame,
                   frame_rgb, results, frame_count, writes, runStatus,
                   outputFile, transcode, success, exc, response>>

\* a loop that goes on to the next iteration when ret is False
ReadFrameNeverBreaks ==
    /\ pc = "read"
    /\ UNCHANGED sweepVars
    /\ IF framesRead < source.frames
       THEN /\ frame' = Some([idx |-> framesRead + 1, w |-> source.w,
                              h |-> source.h, turn |-> 0, order |-> "BGR",
                              marks |-> FALSE])
            /\ framesRead' = framesRead + 1
            /\ steps' = Append(steps, <<framesRead + 1, "read">>)
            /\ pc' = "rotate"
       ELSE /\ frame' = None
            /\ pc' = "read"
            /\ UNCHANGED <<framesRead, steps>>
    /\ UNCHANGED <<manual_rotation, inputSaved, probe, probeCalls, rotation,
                   pose, cap, out, sinkOpens, source, width, height, fps,
                   frame_rgb, results, frame_count, writes, runStatus,
                   tempFile, outputFile, transcode, success, exc, response>>

\* lines 158-161: cap.read(); ret is False once the source is exhausted
ReadFrame ==
    /\ pc = "read"
    /\ UNCHANGED sweepVars
    /\ IF framesRead < source.frames
       THEN /\ frame' = Some([idx |-> framesRead + 1, w |-> source.w,
                              h |-> source.h, turn |-> 0, order |-> "BGR",
                              marks |-> FALSE])
            /\ framesRead' = framesRead + 1
            /\ steps' = Append(steps, <<framesRead + 1, "read">>)
            /\ pc' = "rotate"
       ELSE /\ frame' = None
            /\ pc' = "release"
            /\ UNCHANGED <<framesRead, steps>>
    /\ UNCHANGED <<manual_rotation, inputSaved, probe, probeCalls, rotation,
                   pose, cap, out, sinkOpens, source, width, height, fps,
                   frame_rgb, results, frame_count, writes, runStatus,
                   tempFile, outputFile, transcode, success, exc, response>>

\* lines 163-165
Rotate ==
    /\ pc = "rotate"
    /\ UNCHANGED sweepVars
    /\ frame' = IF rotation # 0 THEN Some(rotate_frame(frame[1], rotation))
                ELSE frame
    /\ steps' = Append(steps, <<frame[1].idx, "rotate">>)
    /\ pc' = "convert"
    /\ UNCHANGED <<manual_rotation, inputSaved, probe, probeCalls, rotation,
                   pose, cap, out, sinkOpens, source, width, height, fps,
                   framesRead, frame_rgb, results, frame_count, writes,
                   runStatus, tempFile, outputFile, transcode, success, exc,
                   response>>

\* the conversion assigned back to frame
ConvertInPlace ==
    /\ pc = "convert"
    /\ UNCHANGED sweepVars
    /\ frame_rgb' = Some(cvtColor(frame[1]))
    /\ frame' = Some(cvtColor(frame[1]))
    /\ steps' = Append(steps, <<frame[1].idx, "convert">>)
    /\ pc' = "detect"
    /\ UNCHANGED <<manual_rotation, inputSaved, probe, probeCalls, rotation,
                   pose, cap, out, sinkOpens, source, width, height, fps,
                   framesRead, results, frame_count, writes, runStatus,
                   tempFile, outputFile, transcode, success, exc, response>>

\* line 168
Convert ==
    /\ pc = "convert"
    /\ UNCHANGED sweepVars
    /\ frame_rgb' = Some(cvtColor(frame[1]))
    /\ steps' = Append(steps, <<frame[1].idx, "convert">>)
    /\ pc' = "detect"
    /\ UNCHANGED <<manual_rotation, inputSaved, probe, probeCalls, rotation,
                   pose, cap, out, sinkOpens, source, width, height, fps,
                   framesRead, frame, results, frame_count, writes, runStatus,
                   tempFile, outputFile, transcode, success, exc, response>>

\* line 171: pose.process(frame_rgb); an exception leaves the function
Detect ==
    /\ pc = "detect"
    /\ UNCHANGED sweepVars
    /\ steps' = Append(steps, <<frame[1].idx, "detect">>)
    /\ \E r \in DetectorOutcomes :
         IF r = "raise"
         THEN /\ exc' = DetectorMessage
              /\ runStatus' = "Errored"
              /\ pc' = "except"
              /\ UNCHANGED results
         ELSE /\ results' = r
              /\ pc' = "draw"
              /\ UNCHANGED <<exc, runStatus>>
    /\ UNCHANGED <<manual_rotation, inputSaved, probe, probeCalls, rotation,
                   pose, cap, out, sinkOpens, source, width, height, fps,
                   framesRead, frame, frame_rgb, frame_count, writes,
                   tempFile, outputFile, transcode, success, response>>

\* out.write(frame) indented into the landmarks branch: a frame without
\* landmarks is not written
DrawSkipsPlainFrames ==
    /\ pc = "draw"
    /\ UNCHANGED sweepVars
    /\ frame' = IF results = "landmarks" THEN Some(draw_landmarks(frame[1]))
                ELSE frame
    /\ steps' = Append(steps, <<frame[1].idx, "composite">>)
    /\ pc' = IF results = "landmarks" THEN "write" ELSE "read"
    /\ UNCHANGED <<manual_rotation, inputSaved, probe, probeCalls, rotation,
                   pose, cap, out, sinkOpens, source, width, height, fps,
                   framesRead, frame_rgb, results, frame_count, writes,
                   runStatus, tempFile, outputFile, transcode, success, exc,
                   response>>

\* lines 174-180
Draw ==
    /\ pc = "draw"
    /\ UNCHANGED sweepVars
    /\ frame' = IF results = "landmarks" THEN Some(draw_landmarks(frame[1]))
                ELSE frame
    /\ steps' = Append(steps, <<frame[1].idx, "composite">>)
    /\ pc' = "write"
    /\ UNCHANGED <<manual_rotation, inputSaved, probe, probeCalls, rotation,
                   pose, cap, out, sinkOpens, source, width, height, fps,
                   framesRead, frame_rgb, results, frame_count, writes,
                   runStatus, tempFile, outputFile, transcode, success, exc,
                   response>>

\* lines 182-186: out.write(frame) on a writer that is not opened, or with a
\* frame of another size than the writer's, stores nothing
Write ==
    /\ pc = "write"
    /\ UNCHANGED sweepVars
    /\ writes' = Append(writes, [idx |-> frame[1].idx, w |-> frame[1].w,
                                 h |-> frame[1].h, codec |-> out.codec,
                                 opened |-> out.opened, frame |-> frame[1],
                                 results |-> results])
    /\ tempFile' = IF out.opened /\ Exists(tempFile)
                      /\ frame[1].w = out.w /\ frame[1].h = out.h
                   THEN File([tempFile[1] EXCEPT
                                !.frames = Append(@, frame[1])])
                   ELSE tempFile
    /\ frame_count' = frame_count + 1
    /\ steps' = Append(steps, <<frame[1].idx, "write">>)
    /\ pc' = "read"
    /\ UNCHANGED <<manual_rotation, inputSaved, probe, probeCalls, rotation,
                   pose, cap, out, sinkOpens, source, width, height, fps,
                   framesRead, frame, frame_rgb, results, runStatus,
                   outputFile, transcode, success, exc, response>>

\* lines 188-192: reached only when the loop ended on ret = False
Release ==
    /\ pc = "release"
    /\ UNCHANGED sweepVars
    /\ UNCHANGED steps
    /\ cap' = "released"
    /\ out' = [out EXCEPT !.released = TRUE]
    /\ pose' = "closed"
    /\ runStatus' = "Closed"
    /\ pc' = "transcode"
    /\ UNCHANGED <<manual_rotation, inputSaved, probe, probeCalls, rotation,
                   sinkOpens, source, width, height, fps, framesRead, frame,
                   frame_rgb, results, frame_count, writes, tempFile,
                   outputFile, transcode, success, exc, response>>

\* what ffmpeg can do with the input it is given: it exits with zero only
\* after reading its input, and leaves a partial output only after opening it
PossibleTranscodes ==
    IF Exists(tempFile) THEN TranscodeOutcomes
    ELSE {"exit_nonzero", "FileNotFoundError", "Exception"}

\* upload_video line 237: convert_to_browser_compatible(temp, output)
Transcode ==
    /\ pc = "transcode"
    /\ UNCHANGED sweepVars
    /\ UNCHANGED steps
    /\ \E o \in PossibleTranscodes :
         LET r == convert_to_browser_compatible(o) IN
         /\ transcode' = Some(o)
         /\ outputFile' =
              IF o = "exit_zero"
              THEN File([kind |-> "transcoded", codec |-> "libx264",
                         frames |-> tempFile[1].frames])
              ELSE IF o = "exit_nonzero_partial"
              THEN File([kind |-> "partial", codec |-> "libx264",
                         frames |-> <<>>])
              ELSE outputFile
         /\ IF r.raised
            THEN /\ exc' = <<"ffmpeg">>
                 /\ pc' = "except"
                 /\ UNCHANGED success
            ELSE /\ success' = Some(r.ret)
                 /\ pc' = "finalize"
                 /\ UNCHANGED exc
    /\ UNCHANGED <<manual_rotation, inputSaved, probe, probeCalls, rotation,
                   pose, cap, out, sinkOpens, source, width, height, fps,
                   framesRead, frame, frame_rgb, results, frame_count, writes,
                   runStatus, tempFile, response>>

\* lines 239-253
Finalize ==
    /\ pc = "finalize"
    /\ UNCHANGED sweepVars
    /\ UNCHANGED steps
    /\ IF success[1]
       THEN /\ tempFile' = Absent
            /\ UNCHANGED outputFile
       ELSE IF Exists(tempFile)
       THEN /\ tempFile' = OsRename(tempFile, outputFile).src
            /\ outputFile' = OsRename(tempFile, outputFile).dst
       ELSE UNCHANGED <<tempFile, outputFile>>
    /\ response' = Some([status |-> 200, kind |-> "success", body |-> <<>>])
    /\ pc' = "responded"
    /\ UNCHANGED <<manual_rotation, inputSaved, probe, probeCalls, rotation,
                   pose, cap, out, sinkOpens, source, width, height, fps,
                   framesRead, frame, frame_rgb, results, frame_count, writes,
                   runStatus, transcode, success, exc>>

\* an except branch without the cleanup of lines 257-258
HandleExceptionKeepsTemp ==
    /\ pc = "except"
    /\ UNCHANGED sweepVars
    /\ UNCHANGED steps
    /\ UNCHANGED tempFile
    /\ response' = Some([status |-> 500, kind |-> "error",
                         body |-> <<"Processing failed: ">> \o exc])
    /\ pc' = "responded"
    /\ UNCHANGED <<manual_rotation, inputSaved, probe, probeCalls, rotation,
                   pose, cap, out, sinkOpens, source, width, height, fps,
                   framesRead, frame, frame_rgb, results, frame_count, writes,
                   runStatus, outputFile, transcode, success, exc>>

\* lines 254-259
HandleException ==
    /\ pc = "except"
    /\ UNCHANGED sweepVars
    /\ UNCHANGED steps
    /\ tempFile' = Absent
    /\ response' = Some([status |-> 500, kind |-> "error",
                         body |-> <<"Processing failed: ">> \o exc])
    /\ pc' = "responded"
    /\ UNCHANGED <<manual_rotation, inputSaved, probe, probeCalls, rotation,
                   pose, cap, out, sinkOpens, source, width, height, fps,
                   framesRead, frame, frame_rgb, results, frame_count, writes,
                   runStatus, outputFile, transcode, success, exc>>

----------------------------------------------------------------------------
\* cleanup_old_files, lines 22-41

\* time.sleep(1800)
SleepSeconds == 1800

\* current_time - 7200
Retention == 7200

\* the number of sleeps after which the clock of the model stops advancing
MaxSleeps == 3

\* [app.config['UPLOAD_FOLDER'], app.config['PROCESSED_FOLDER']], in order
FolderNames == <<"uploads", "processed">>

\* line 33: os.path.getmtime(filepath) < current_time - 7200
IsOld(mtime, ct) == mtime < ct - Retention

NamesIn(folder) == { f.name : f \in disk[folder] }
FileNamed(folder, name) == CHOOSE f \in disk[folder] : f.name = name
CurrentFolder == FolderNames[folderIx]

\* the thread asleep before its first pass, the folders as lines 18-19 made them
SweepAsleep ==
    /\ now = 0
    /\ disk = [uploads |-> {}, processed |-> {}]
    /\ spc = "sleep"
    /\ current_time = 0
    /\ folderIx = 1
    /\ listing = {}
    /\ entry = ""
    /\ swept = {}
    /\ lastPass = "none"
    /\ savedNames = {}

Init == RequestInit /\ SweepAsleep

\* the server has been up for the retention time and earlier requests have
\* left files of several ages; one request is in flight and owns a temp file
SweepInit ==
    /\ RequestInit
    /\ now = Retention
    /\ \E old \in SUBSET {"uploads", "processed"} :
         disk = [uploads |->
                    { [name |-> "a_input.mp4", mtime |-> Retention, kind |-> "input"] }
                    \cup (IF "uploads" \in old
                          THEN { [name |-> "z_input.mp4", mtime |-> 0, kind |-> "input"] }
                          ELSE {}),
                 processed |->
                    { [name |-> "b_temp.mp4", mtime |-> Retention, kind |-> "temp"],
                      [name |-> "c_output.mp4", mtime |-> SleepSeconds, kind |-> "output"] }
                    \cup (IF "processed" \in old
                          THEN { [name |-> "d_output.mp4", mtime |-> 0, kind |-> "output"] }
                          ELSE {})]
    /\ spc = "sleep"
    /\ current_time = 0
    /\ folderIx = 1
    /\ listing = {}
    /\ entry = ""
    /\ swept = {}
    /\ lastPass = "none"
    /\ savedNames = {}

\* line 25: time.sleep(1800)
SweepSleep ==
    /\ spc = "sleep"
    /\ now' = IF now < Retention + MaxSleeps * SleepSeconds
              THEN now + SleepSeconds ELSE now
    /\ spc' = "begin"
    /\ UNCHANGED <<disk, current_time, folderIx, listing, entry, swept,
                   lastPass, savedNames>>
    /\ UNCHANGED requestVars

\* lines 26-28: the try is entered, current_time is taken once for the pass
SweepBegin ==
    /\ spc = "begin"
    /\ current_time' = now
    /\ folderIx' = 1
    /\ swept' = {}
    /\ spc' = "listdir"
    /\ UNCHANGED <<now, disk, listing, entry, lastPass, savedNames>>
    /\ UNCHANGED requestVars

\* line 29: os.listdir(folder)
SweepListdir ==
    /\ spc = "listdir"
    /\ listing' = NamesIn(CurrentFolder)
    /\ spc' = "next"
    /\ UNCHANGED <<now, disk, current_time, folderIx, entry, swept, lastPass,
                   savedNames>>
    /\ UNCHANGED requestVars

\* lines 28-31: the next entry of the listing, in any order, and isfile on
\* it; after the last entry the next folder, after the last folder the pass
\* is over
SweepNextEntry ==
    /\ spc = "next"
    /\ IF listing # {}
       THEN \E name \in listing :
              /\ listing' = listing \ {name}
              /\ entry' = name
              /\ spc' = IF name \in NamesIn(CurrentFolder) THEN "getmtime"
                        ELSE "next"
              /\ UNCHANGED <<folderIx, lastPass>>
       ELSE IF folderIx < Len(FolderNames)
       THEN /\ folderIx' = folderIx + 1
            /\ spc' = "listdir"
            /\ UNCHANGED <<listing, entry, lastPass>>
       ELSE /\ lastPass' = "ok"
            /\ spc' = "sleep"
            /\ UNCHANGED <<listing, entry, folderIx>>
    /\ UNCHANGED <<now, disk, current_time, swept, savedNames>>
    /\ UNCHANGED requestVars

\* line 33: os.path.getmtime raises FileNotFoundError on a file that is gone
SweepGetmtime ==
    /\ spc = "getmtime"
    /\ spc' = IF entry \notin NamesIn(CurrentFolder) THEN "except"
              ELSE IF IsOld(FileNamed(CurrentFolder, entry).mtime, current_time)
              THEN "remove"
              ELSE "next"
    /\ UNCHANGED <<now, disk, current_time, folderIx, listing, entry, swept,
                   lastPass, savedNames>>
    /\ UNCHANGED requestVars

\* lines 34-35: os.remove raises FileNotFoundError on a file that is gone
SweepRemove ==
    /\ spc = "remove"
    /\ IF entry \notin NamesIn(CurrentFolder)
       THEN /\ spc' = "except"
            /\ UNCHANGED <<disk, swept>>
       ELSE LET f == FileNamed(CurrentFolder, entry) IN
            /\ disk' = [disk EXCEPT ![CurrentFolder] = @ \ {f}]
            /\ swept' = swept \cup {[folder |-> CurrentFolder, name |-> f.name,
                                     mtime |-> f.mtime, at |-> current_time]}
            /\ spc' = "next"
    /\ UNCHANGED <<now, current_time, folderIx, listing, entry, lastPass,
                   savedNames>>
    /\ UNCHANGED requestVars

\* a handler placed around the whole loop: the exception ends the thread
SweepExceptExits ==
    /\ spc = "except"
    /\ lastPass' = "failed"
    /\ spc' = "exited"
    /\ UNCHANGED <<now, disk, current_time, folderIx, listing, entry, swept,
                   savedNames>>
    /\ UNCHANGED requestVars

\* lines 36-37 and back to line 24: the pass is abandoned, the loop goes on
SweepExcept ==
    /\ spc = "except"
    /\ lastPass' = "failed"
    /\ spc' = "sleep"
    /\ UNCHANGED <<now, disk, current_time, folderIx, listing, entry, swept,
                   savedNames>>
    /\ UNCHANGED requestVars

\* upload_video lines 242, 247, 258 in a concurrent request: its temp file
\* leaves the processed folder
HandlerRemovesTemp ==
    /\ \E f \in disk["processed"] :
         /\ f.kind = "temp"
         /\ disk' = [disk EXCEPT !["processed"] = @ \ {f}]
    /\ UNCHANGED <<now, spc, current_time, folderIx, listing, entry, swept,
                   lastPass, savedNames>>
    /\ UNCHANGED requestVars

\* upload_video line 228 in a concurrent request: file.save(input_path)
HandlerSavesUpload ==
    /\ "n_input.mp4" \notin savedNames
    /\ savedNames' = savedNames \cup {"n_input.mp4"}
    /\ disk' = [disk EXCEPT !["uploads"] =
                  @ \cup {[name |-> "n_input.mp4", mtime |-> now,
                           kind |-> "input"]}]
    /\ UNCHANGED <<now, spc, current_time, folderIx, listing, entry, swept,
                   lastPass>>
    /\ UNCHANGED requestVars

SweepThread ==
    \/ SweepSleep
    \/ SweepBegin
    \/ SweepListdir
    \/ SweepNextEntry
    \/ SweepGetmtime
    \/ SweepRemove
    \/ SweepExcept

SweepNext ==
    \/ SweepSleep
    \/ SweepBegin
    \/ SweepListdir
    \/ SweepNextEntry
    \/ SweepGetmtime
    \/ SweepRemove
    \/ SweepExcept
    \/ HandlerRemovesTemp
    \/ HandlerSavesUpload

SweepSpec == SweepInit /\ [][SweepNext]_vars

\* the daemon thread of lines 40-41 is scheduled for as long as the server runs
SweepLive == SweepSpec /\ WF_vars(SweepThread)

Next ==
    \/ Receive
    \/ StartRun
    \/ OpenSource
    \/ OpenSink
    \/ OpenFallback
    \/ ReadFrame
    \/ Rotate
    \/ Convert
    \/ Detect
    \/ Draw
    \/ Write
    \/ Release
    \/ Transcode
    \/ Finalize
    \/ HandleException

Spec == Init /\ [][Next]_vars

\* the request handler is scheduled until it has answered
LiveSpec == Spec /\ WF_vars(Next)

----------------------------------------------------------------------------
\* Properties

Responded == pc = "responded" /\ response # None
Succeeded == Responded /\ response[1].kind = "success"
Failed == Responded /\ response[1].kind # "success"

PrimaryFailed == Len(sinkOpens) >= 1 /\ ~sinkOpens[1].opened
FallbackOpened == Len(sinkOpens) = 2 /\ sinkOpens[2].opened
FallbackFailed == Len(sinkOpens) = 2 /\ ~sinkOpens[2].opened
RunEnded == runStatus \in {"Closed", "Errored"}

\* C1: every request that reports success leaves a file at the final output
\* path and no file at the temp output path, however the transcoder ended
\* and however the sink was opened.
C1_ExactlyOneArtifact ==
    Succeeded => (Exists(outputFile) /\ ~Exists(tempFile))

\* C2: when the writer opens neither with avc1 nor with mp4v, no frame is
\* read or written, the run does not end Closed, and the request is answered
\* with an error.
C2_SinkOpenErrorAborts ==
    (PrimaryFailed /\ FallbackFailed) =>
        /\ framesRead = 0
        /\ writes = <<>>
        /\ runStatus # "Closed"
        /\ Responded => response[1].kind = "error"

\* C3: the sink is opened at most twice, mp4v only after avc1 failed and only
\* once, both before the first frame is read; and when avc1 fails and mp4v
\* opens, the run ends Closed with every frame written through the mp4v
\* writer.
C3_FallbackOnceThenSuccess ==
    /\ Len(sinkOpens) <= 2
    /\ \A i \in 1..Len(sinkOpens) : sinkOpens[i].framesRead = 0
    /\ Len(sinkOpens) >= 1 => sinkOpens[1].codec = "avc1"
    /\ Len(sinkOpens) = 2 => (~sinkOpens[1].opened /\ sinkOpens[2].codec = "mp4v")
    /\ (framesRead > 0 /\ PrimaryFailed) => Len(sinkOpens) = 2
    /\ (PrimaryFailed /\ FallbackOpened) =>
          /\ \A i \in 1..Len(writes) :
                writes[i].codec = "mp4v" /\ writes[i].opened
          /\ RunEnded =>
                (runStatus = "Closed" /\ Len(writes) = source.frames)

\* C4: whenever a run of process_video_with_pose has ended, normally or with
\* an exception, the detector is closed and neither the source nor the sink
\* is still held.
C4_ResourcesReleasedOnEveryExit ==
    RunEnded =>
        /\ pose = "closed"
        /\ cap # "opened"
        /\ ~(out.opened /\ ~out.released)

ValidHints == {0, 90, 180, 270}
InvalidHint == manual_rotation # None /\ manual_rotation[1] \notin ValidHints

\* C5: a hint outside {0, 90, 180, 270} is rejected before processing: no
\* detector, source or sink is opened, no frame is read, and the answer is an
\* error.
C5_InvalidHintRejected ==
    InvalidHint =>
        /\ pose = "none"
        /\ cap = "none"
        /\ sinkOpens = <<>>
        /\ framesRead = 0
        /\ Responded => response[1].kind = "error"

\* the probe outcomes that carry no rotation: tool missing, tool failing,
\* no tag, a tag that is not a number
FailedProbes ==
    { [kind |-> "FileNotFoundError", stdout |-> <<>>],
      [kind |-> "OSError", stdout |-> <<>>],
      [kind |-> "returned", stdout |-> <<>>],
      [kind |-> "returned", stdout |-> <<"\n">>],
      [kind |-> "returned", stdout |-> <<"N", "/", "A", "\n">>] }

\* C6: without a hint the probe is called exactly once; when it fails or
\* reports no usable tag the rotation is 0 and the run goes on to open the
\* source: the probe neither aborts the run nor is called again.
C6_ProbeOnceFailureIsZero ==
    /\ probeCalls <= 1
    /\ (manual_rotation = None /\ runStatus # "idle") =>
          (probeCalls = 1 /\ probe # None)
    /\ (probe # None /\ probe[1] \in FailedProbes) =>
          /\ rotation = 0
          /\ pc # "start"
          /\ pc = "open_source" => (runStatus = "running" /\ exc = <<>>)
          /\ runStatus = "Errored" => exc \in {SourceOpenMessage, DetectorMessage}

C6_Witness ==
    /\ probe # None /\ probe[1] \in FailedProbes
    /\ probe[1].kind = "returned" /\ probe[1].stdout # <<>>
    /\ probeCalls = 1
    /\ runStatus = "Closed"
    /\ frame_count = MaxFrames

\* C7: every frame passed to the sink has the width and height the sink was
\* opened with, which are the source's with the sides swapped exactly when
\* the rotation is 90 or 270; a hint of 90 on 1920x1080 gives 1080x1920.
C7_FrameMatchesSinkGeometry ==
    /\ \A i \in 1..Len(writes) :
          /\ writes[i].w = out.w /\ writes[i].h = out.h
          /\ <<writes[i].w, writes[i].h>> =
                IF rotation = 90 \/ rotation = 270
                THEN <<source.h, source.w>> ELSE <<source.w, source.h>>
    /\ (manual_rotation = Some(90) /\ source.w = 1920 /\ source.h = 1080) =>
          /\ width = 1080 /\ height = 1920
          /\ \A i \in 1..Len(writes) : writes[i].w = 1080 /\ writes[i].h = 1920

C7_Witness ==
    /\ manual_rotation = Some(90)
    /\ source.w = 1920 /\ source.h = 1080
    /\ out.opened
    /\ Len(writes) = MaxFrames
    /\ writes[1].w = 1080 /\ writes[1].h = 1920

\* C8: a run on a source of N frames stores exactly N frames and ends with
\* frame_count = N; with N = 0 it ends Closed with the sink opened and
\* released and nothing written.
C8_ExactlyNFramesWritten ==
    pc = "transcode" =>
        /\ runStatus = "Closed"
        /\ frame_count = source.frames
        /\ out.opened /\ out.released
        /\ Exists(tempFile)
        /\ Len(tempFile[1].frames) = source.frames

\* C9: when the raw file exists and the transcoder has failed, the finalize
\* step leaves at the final path the raw file's content, whatever the
\* transcoder left there, and nothing at the intermediate path.
C9_FallbackKeepsRawOnly ==
    [][ (pc = "finalize" /\ Exists(tempFile) /\ success = Some(FALSE)) =>
            (outputFile' = tempFile /\ tempFile' = Absent /\ Exists(outputFile')) ]_vars

C9_Witness ==
    /\ Succeeded
    /\ transcode = Some("exit_nonzero_partial")
    /\ Exists(outputFile) /\ outputFile[1].kind = "raw"
    /\ Len(outputFile[1].frames) = MaxFrames
    /\ ~Exists(tempFile)

\* C10: whatever way the transcoder fails, the transcode step returns False
\* and raises nothing, the rename branch is the one taken, and the request is
\* answered with success.
C10_TranscodeFailureNotFatal ==
    (transcode # None /\ transcode[1] # "exit_zero") =>
        /\ success = Some(FALSE)
        /\ pc \in {"finalize", "responded"}
        /\ exc = <<>>
        /\ pc = "responded" =>
              /\ Succeeded
              /\ ~Exists(tempFile)
              /\ Exists(outputFile) => outputFile[1].kind = "raw"

C10_Witness ==
    /\ Succeeded
    /\ transcode # None
    /\ transcode[1] \in {"FileNotFoundError", "Exception"}
    /\ Exists(outputFile)

\* C11: a raise of the detector on a frame is not fatal: the run is not made
\* Errored by it, the handler's except branch is not entered, and the request
\* is not answered with an error.
C11_DetectorFailureNotFatal ==
    exc = DetectorMessage =>
        /\ runStatus # "Errored"
        /\ pc # "except"
        /\ Responded => response[1].kind = "success"

PassOver == spc = "sleep" /\ lastPass # "none"

\* C12: a pass removes every file older than the threshold and no file that
\* is not, also when a listed entry has gone before the thread reaches it:
\* when a pass is over no file older than the pass's threshold is left in
\* either folder, and every file the pass removed was older than it.
C12_SweepRemovesExactlyOld ==
    /\ \A r \in swept : r.mtime < r.at - 7200
    /\ PassOver =>
          \A i \in 1..Len(FolderNames) :
             \A f \in disk[FolderNames[i]] : ~(f.mtime < current_time - 7200)

\* C13: an exception in a pass is caught inside the loop: handling it
\* changes neither the folders nor a request, the thread never ends, and
\* after a failed pass another pass is started.
C13_SweepSurvivesFailure ==
    /\ [][(spc = "except" /\ spc' # "except") =>
            (disk' = disk /\ UNCHANGED requestVars /\ spc' = "sleep")]_vars
    /\ (spc = "except") ~> (spc = "listdir")

C13_Witness ==
    /\ lastPass = "failed"
    /\ spc = "remove"
    /\ entry = "d_output.mp4"

\* the steps of one frame, in the order of lines 159-182
StepOrder == <<"read", "rotate", "convert", "detect", "composite", "write">>

\* C14: frames are processed one at a time and in a fixed step order: the
\* k-th step of a run is the step of that position in read, rotate, convert,
\* detect, composite, write, on frame 1, then frame 2, and so on, so that
\* frame N+1 is read only after frame N has been written.
C14_FixedStepOrder ==
    /\ \A k \in 1..Len(steps) :
          steps[k] = << ((k - 1) \div Len(StepOrder)) + 1,
                        StepOrder[((k - 1) % Len(StepOrder)) + 1] >>
    /\ framesRead <= Len(writes) + 1
    /\ pc = "read" => framesRead = Len(writes)

C14_Witness ==
    /\ runStatus = "Closed"
    /\ Len(steps) = MaxFrames * Len(StepOrder)
    /\ steps[Len(steps)] = <<MaxFrames, "write">>

\* C15: every started run ends: with a source that runs out of frames and
\* calls that return, a running run reaches Closed or Errored, and the
\* handler is never past the run while the run is still running.
C15_RunTerminates ==
    /\ (runStatus = "running") ~> (runStatus \in {"Closed", "Errored"})
    /\ [](pc \in {"transcode", "finalize", "except", "responded"}
             => runStatus # "running")

C15_Witness ==
    /\ runStatus = "Closed"
    /\ pc = "transcode"
    /\ framesRead = MaxFrames
    /\ source.frames = MaxFrames

InternalPaths == {INPUT_PATH, TEMP_OUTPUT_PATH}

\* C16: the error returned for a failed request contains no internal file
\* path, neither the input path nor the temp output path.
C16_NoPathInError ==
    Failed =>
        \A i \in 1..Len(response[1].body) :
            response[1].body[i] \notin InternalPaths

\* C17: the orientation of a run is one of 0, 90, 180, 270, from the hint or
\* from whatever the probe reports, and is the value used both for the
\* geometry swap and for the rotation of every frame.
C17_OrientationValidAndFixed ==
    runStatus # "idle" =>
        /\ rotation \in ValidHints
        /\ cap = "opened" =>
              <<width, height>> =
                 IF rotation \in {90, 270} THEN <<source.h, source.w>>
                 ELSE <<source.w, source.h>>

\* C18: the frame rate the sink is opened with is positive: the source's
\* frame rate as int() reads it when that is positive, and 30 otherwise.
C18_SinkFpsPositive ==
    cap \in {"opened", "released"} =>
        /\ fps > 0
        /\ source.fpsTenths >= 10 =>
              (10 * fps <= source.fpsTenths /\ source.fpsTenths < 10 * (fps + 1))
        /\ source.fpsTenths < 10 => fps = 30
        /\ Len(sinkOpens) > 0 => out.fps = fps

C18_Witness ==
    /\ out.opened
    /\ source.fpsTenths = 5
    /\ out.fps = 30
    /\ Len(writes) = MaxFrames

\* what cap.read() delivered as frame i
SourceFrame(i) ==
    [idx |-> i, w |-> source.w, h |-> source.h, turn |-> 0, order |-> "BGR",
     marks |-> FALSE]

\* frame i after lines 163-165
RotatedFrame(i) ==
    IF rotation # 0 THEN rotate_frame(SourceFrame(i), rotation)
    ELSE SourceFrame(i)

\* C19: a frame on which the detector found no landmarks is written exactly
\* as it was after rotation: neither the colour conversion nor the drawing
\* step changed it; visualize_frame without landmarks returns its frame.
C19_PlainFrameUnchanged ==
    /\ \A i \in 1..Len(writes) :
          writes[i].results = "no_landmarks" =>
             /\ writes[i].frame = RotatedFrame(writes[i].idx)
             /\ visualize_frame(RotatedFrame(writes[i].idx), None) = writes[i].frame
    /\ (pc \in {"detect", "draw", "write"} /\ frame # None) =>
          (frame[1].order = "BGR" /\ frame_rgb[1].order = "RGB")

C19_Witness ==
    /\ Len(writes) = MaxFrames
    /\ writes[1].results = "no_landmarks"
    /\ rotation = 90
    /\ out.opened
    /\ Exists(tempFile)
    /\ tempFile[1].frames[1] = RotatedFrame(1)

====
